---------------------------- MODULE Spec2Model ----------------------------
(***************************************************************************)
(* GreenPlate weekly menu parser: parse_menu.py (cell normalisation, table *)
(* scoring, candidate selection, header resolution, assembly of the day    *)
(* lists) and find_latest_pdf.py (pick_best).                              *)
(*                                                                         *)
(* A Python str is a sequence of one-glyph strings.  Glyphs that are not   *)
(* ASCII carry a name: "I_dot" is the dotted capital I, "i_nodot" the      *)
(* dotless small i, "S_ced"/"s_ced" the S with cedilla, "C_ced"/"c_ced"    *)
(* the C with cedilla, "O_uml"/"o_uml", "G_brv"/"g_brv".                   *)
(***************************************************************************)
EXTENDS Integers, Sequences, FiniteSets, TLC

VARIABLES
    pc,                 \* position of the running function
    cell, items, dish,  \* _cell_to_items: its argument, its result, _norm of it
    tableA, tableB, scoreA, scoreB,   \* _score_table on two tables
    urls, order, best,  \* pick_best: the links, set iteration order, result
    page,               \* the opened pdf: pages, per-setting tables, fallback
    vi, best_table, best_score,       \* extract_menu_from_pdf: selection
    header_row_idx, col_idx_for_day,  \* header resolution
    fallback_called,    \* whether page.extract_table() was called
    days, raised        \* the day lists, and whether an exception escaped

vars == <<pc, cell, items, dish, tableA, tableB, scoreA, scoreB, urls, order,
          best, page, vi, best_table, best_score, header_row_idx,
          col_idx_for_day, fallback_called, days, raised>>

cellVars == <<cell, items, dish>>
scoreVars == <<tableA, tableB, scoreA, scoreB>>
pickVars == <<urls, order, best>>
menuVars == <<page, vi, best_table, best_score, header_row_idx,
              col_idx_for_day, fallback_called, days, raised>>

---------------------------------------------------------------------------
(* Glyphs *)

SP == " "
TAB == "tab"
NL == "nl"
CR == "cr"
NBSP == "nbsp"
BULLET == "bullet"
SLASH == "/"

\* Python's None, where a str is expected (a pdfplumber cell may be None).
None == <<"None">>

\* str.upper() glyph by glyph, for the glyphs the model uses.
LowerGlyphs == <<"a", "b", "c", "d", "e", "f", "g", "h", "i", "j", "k", "l",
                 "m", "n", "o", "p", "q", "r", "s", "t", "u", "v", "w", "x",
                 "y", "z", "i_nodot", "s_ced", "c_ced", "o_uml", "g_brv">>
UpperGlyphs == <<"A", "B", "C", "D", "E", "F", "G", "H", "I", "J", "K", "L",
                 "M", "N", "O", "P", "Q", "R", "S", "T", "U", "V", "W", "X",
                 "Y", "Z", "I", "S_ced", "C_ced", "O_uml", "G_brv">>

UpperMap ==
    [c \in {LowerGlyphs[k] : k \in 1..Len(LowerGlyphs)} |->
        UpperGlyphs[CHOOSE k \in 1..Len(LowerGlyphs) : LowerGlyphs[k] = c]]

UpperGlyph(c) == IF c \in DOMAIN UpperMap THEN UpperMap[c] ELSE c

RECURSIVE upper(_)
upper(s) ==
    IF s = <<>> THEN <<>> ELSE <<UpperGlyph(Head(s))>> \o upper(Tail(s))

\* str.strip() with no argument strips whitespace.
IsSpace(c) == c \in {SP, TAB, NL, CR, NBSP}

RECURSIVE lstrip(_)
lstrip(s) ==
    IF s # <<>> /\ IsSpace(Head(s)) THEN lstrip(Tail(s)) ELSE s

RECURSIVE rstrip(_)
rstrip(s) ==
    IF s # <<>> /\ IsSpace(s[Len(s)]) THEN rstrip(SubSeq(s, 1, Len(s) - 1))
    ELSE s

strip(s) == rstrip(lstrip(s))

\* str.replace(old, new) for one-glyph old and new.
RECURSIVE replace(_, _, _)
replace(s, old, new) ==
    IF s = <<>> THEN <<>>
    ELSE <<IF Head(s) = old THEN new ELSE Head(s)>>
         \o replace(Tail(s), old, new)

\* re.sub(r"[ \t]+", " ", s)
RECURSIVE SubBlanks(_)
SubBlanks(s) ==
    IF s = <<>> THEN <<>>
    ELSE IF Head(s) \in {SP, TAB}
         THEN IF Len(s) > 1 /\ s[2] \in {SP, TAB}
              THEN SubBlanks(Tail(s))
              ELSE <<SP>> \o SubBlanks(Tail(s))
         ELSE <<Head(s)>> \o SubBlanks(Tail(s))

\* re.sub(r"\n{3,}", "\n\n", s): of a run of line breaks the first two stay.
SubNewlines(s) ==
    LET keep(k) == ~(s[k] = NL /\ k > 2 /\ s[k - 1] = NL /\ s[k - 2] = NL)
        F[k \in 0..Len(s)] ==
            IF k = 0 THEN <<>>
            ELSE IF keep(k) THEN Append(F[k - 1], s[k]) ELSE F[k - 1]
    IN  F[Len(s)]

\* str.split("\n"): the pieces between separators, empty ones included.
RECURSIVE split(_, _)
split(s, sep) ==
    IF s = <<>> THEN <<<<>>>>
    ELSE LET rest == split(Tail(s), sep)
         IN  IF Head(s) = sep THEN <<<<>>>> \o rest
             ELSE <<<<Head(s)>> \o Head(rest)>> \o Tail(rest)

\* sep.join(parts)
RECURSIVE join(_, _)
join(parts, sep) ==
    IF parts = <<>> THEN <<>>
    ELSE IF Len(parts) = 1 THEN parts[1]
    ELSE parts[1] \o <<sep>> \o join(Tail(parts), sep)

\* s.startswith(prefix)
startswith(s, prefix) ==
    Len(s) >= Len(prefix) /\ SubSeq(s, 1, Len(prefix)) = prefix

Range(s) == {s[k] : k \in 1..Len(s)}

Min(a, b) == IF a < b THEN a ELSE b

---------------------------------------------------------------------------
(* parse_menu.py: _norm and _cell_to_items *)

_norm(s) ==
    LET s0 == IF s = None THEN <<>> ELSE s
        s1 == strip(replace(s0, NBSP, SP))
        s2 == SubBlanks(s1)
        s3 == replace(s2, CR, NL)
        s4 == SubNewlines(s3)
    IN  strip(s4)

\* The lines of a normalised, bullet-free cell: stripped, blank ones dropped.
RECURSIVE StrippedNonBlank(_)
StrippedNonBlank(lns) ==
    IF lns = <<>> THEN <<>>
    ELSE IF strip(Head(lns)) # <<>>
         THEN <<strip(Head(lns))>> \o StrippedNonBlank(Tail(lns))
         ELSE StrippedNonBlank(Tail(lns))

Lines(c) == StrippedNonBlank(split(c, NL))

\* A bug that keeps only the first line of a wrapped cell.
_cell_to_items_first_line(c) ==
    LET c1 == _norm(c)
        c2 == strip(replace(c1, BULLET, SP))
    IN  IF c1 = <<>> THEN <<>>
        ELSE IF Len(Lines(c2)) <= 1 THEN <<c2>>
        ELSE <<Lines(c2)[1]>>

_cell_to_items(c) ==
    LET c1 == _norm(c)
        c2 == strip(replace(c1, BULLET, SP))
        lines == Lines(c2)
    IN  IF c1 = <<>> THEN <<>>
        ELSE IF Len(lines) <= 1 THEN <<c2>>
        ELSE IF SLASH \in Range(lines[1]) THEN <<join(lines, SP)>>
        ELSE <<join(lines, SP)>>


---------------------------------------------------------------------------
(* parse_menu.py: DAY_MAP, DAYS_EN and _score_table *)

PAZARTESI_dot == <<"P", "A", "Z", "A", "R", "T", "E", "S", "I_dot">>
PAZARTESI == <<"P", "A", "Z", "A", "R", "T", "E", "S", "I">>
SALI == <<"S", "A", "L", "I">>
CARSAMBA_ced == <<"C_ced", "A", "R", "S_ced", "A", "M", "B", "A">>
CARSAMBA == <<"C", "A", "R", "S", "A", "M", "B", "A">>
PERSEMBE_ced == <<"P", "E", "R", "S_ced", "E", "M", "B", "E">>
PERSEMBE == <<"P", "E", "R", "S", "E", "M", "B", "E">>
CUMA == <<"C", "U", "M", "A">>

\* The dict as its items, in insertion order.
DAY_MAP ==
    << <<PAZARTESI_dot, "Monday">>, <<PAZARTESI, "Monday">>,
       <<SALI, "Tuesday">>,
       <<CARSAMBA_ced, "Wednesday">>, <<CARSAMBA, "Wednesday">>,
       <<PERSEMBE_ced, "Thursday">>, <<PERSEMBE, "Thursday">>,
       <<CUMA, "Friday">> >>

\* "k in DAY_MAP" and DAY_MAP[k]
DayKeys == {DAY_MAP[k][1] : k \in 1..Len(DAY_MAP)}
DayOf(key) == DAY_MAP[CHOOSE k \in 1..Len(DAY_MAP) : DAY_MAP[k][1] = key][2]

DAYS_EN == <<"Monday", "Tuesday", "Wednesday", "Thursday", "Friday">>

EmptyScore == -10
WideCols == 5
WideBonus == 10
HitBonus == 5
ScoreRows == 6
RowCap == 30

\* table[:n]
FirstRows(table, n) == SubSeq(table, 1, Min(Len(table), n))

\* max((len(r) for r in table if r), default=0)
MaxCols(table) ==
    IF \A k \in 1..Len(table) : table[k] = <<>> THEN 0
    ELSE CHOOSE m \in {Len(table[k]) : k \in 1..Len(table)} :
             \A k \in 1..Len(table) : Len(table[k]) <= m

\* The DAY_MAP keys d with "d in rr", rr = [_norm(c).upper() for c in r if c].
ScoreRowKeys(r) ==
    LET rr == {upper(_norm(r[j])) :
                  j \in {i \in 1..Len(r) : r[i] # None /\ r[i] # <<>>}}
    IN  DayKeys \cap rr

\* The number of times line 72 runs: once per row of table[:6] and key in it.
RECURSIVE DayHits(_)
DayHits(rows) ==
    IF rows = <<>> THEN 0
    ELSE Cardinality(ScoreRowKeys(Head(rows))) + DayHits(Tail(rows))

\* A bug that leaves the row-count term uncapped.
_score_table_uncapped(table) ==
    IF table = <<>> THEN EmptyScore
    ELSE (IF MaxCols(table) >= WideCols THEN WideBonus ELSE 0)
         + HitBonus * DayHits(FirstRows(table, ScoreRows))
         + Len(table)

_score_table(table) ==
    IF table = <<>> THEN EmptyScore
    ELSE (IF MaxCols(table) >= WideCols THEN WideBonus ELSE 0)
         + HitBonus * DayHits(FirstRows(table, ScoreRows))
         + Min(Len(table), RowCap)

---------------------------------------------------------------------------
(* parse_menu.py: extract_menu_from_pdf.  Indices are Python's, from 0;     *)
(* At(s, j) is s[j].                                                       *)

\* best_table = None.  The code tests a table only with "not table" and
\* "if t", so None and the empty list are one value here.
NoTable == <<>>

InitialBestScore == -10
NumSettings == 3
HeaderScanRows == 10
HeaderMinHits == 3
NumDays == 5
PadWidth == 5

At(s, j) == s[j + 1]

\* page.extract_tables(table_settings=settings) or [], [] when it raises
TablesOf(result) == IF result.raises THEN <<>> ELSE result.tables

\* A bug that moves best_table without recording its score.
RECURSIVE ScanTables_score_not_kept(_, _)
ScanTables_score_not_kept(sel, tables) ==
    IF tables = <<>> THEN sel
    ELSE LET t == Head(tables)
             sc == _score_table(t)
         IN  ScanTables_score_not_kept(
                 IF sc > sel.score THEN [score |-> sel.score, table |-> t]
                 ELSE sel,
                 Tail(tables))

\* A bug that lets a later candidate of equal score replace the best.
RECURSIVE ScanTables_last_wins(_, _)
ScanTables_last_wins(sel, tables) ==
    IF tables = <<>> THEN sel
    ELSE LET t == Head(tables)
             sc == _score_table(t)
         IN  ScanTables_last_wins(
                 IF sc >= sel.score THEN [score |-> sc, table |-> t] ELSE sel,
                 Tail(tables))

\* for t in tables: sc = _score_table(t); if sc > best_score: ...
RECURSIVE ScanTables(_, _)
ScanTables(sel, tables) ==
    IF tables = <<>> THEN sel
    ELSE LET t == Head(tables)
             sc == _score_table(t)
         IN  ScanTables(
                 IF sc > sel.score THEN [score |-> sc, table |-> t] ELSE sel,
                 Tail(tables))

\* [_norm(c).upper() for c in row]
RECURSIVE NormUpperRow(_)
NormUpperRow(row) ==
    IF row = <<>> THEN <<>>
    ELSE <<upper(_norm(Head(row)))>> \o NormUpperRow(Tail(row))

\* sum(1 for k in DAY_MAP if k in r)
HeaderHits(row) == Cardinality(DayKeys \cap Range(NormUpperRow(row)))

\* A bug that scans every row of the table for the header.
FindHeaderRow_all_rows(table) ==
    LET found == {i \in 0..(Len(table) - 1) :
                     HeaderHits(At(table, i)) >= HeaderMinHits}
    IN  IF found = {} THEN 0
        ELSE CHOOSE i \in found : \A h \in found : i <= h

\* The first i among best_table[:10] with hits >= 3, else 0.
FindHeaderRow(table) ==
    LET found == {i \in 0..(Min(Len(table), HeaderScanRows) - 1) :
                     HeaderHits(At(table, i)) >= HeaderMinHits}
    IN  IF found = {} THEN 0
        ELSE CHOOSE i \in found : \A h \in found : i <= h

\* {DAYS_EN[k]: k for k in range(5)}
PositionalColumns == [d \in Range(DAYS_EN) |->
                         CHOOSE k \in 0..(NumDays - 1) : At(DAYS_EN, k) = d]

\* col_idx_for_day[day] = j
SetItem(col, day, j) ==
    [d \in DOMAIN col \cup {day} |-> IF d = day THEN j ELSE col[d]]

\* for j, cell in enumerate(hdr_norm): if cell in DAY_MAP: ... (from column j)
RECURSIVE LabelColumnsFrom(_, _, _)
LabelColumnsFrom(col, hdr_norm, j) ==
    IF j >= Len(hdr_norm) THEN col
    ELSE LabelColumnsFrom(
             IF At(hdr_norm, j) \in DayKeys
             THEN SetItem(col, DayOf(At(hdr_norm, j)), j)
             ELSE col,
             hdr_norm, j + 1)

\* The dict of lines 136-141.
LabelColumns(hdr) == LabelColumnsFrom(<<>>, NormUpperRow(hdr), 0)

\* A bug that fills only the unmatched weekdays from their positions.
ResolveColumns_mixed(hdr) ==
    LET col == LabelColumns(hdr)
    IN  [d \in Range(DAYS_EN) |->
            IF d \in DOMAIN col THEN col[d] ELSE PositionalColumns[d]]

ResolveColumns(hdr) ==
    LET col == LabelColumns(hdr)
    IN  IF Cardinality(DOMAIN col) < NumDays THEN PositionalColumns ELSE col

\* not row or sum(1 for c in row if _norm(c)) <= 1
SkipRow(row) ==
    \/ row = <<>>
    \/ Cardinality({k \in 1..Len(row) : _norm(row[k]) # <<>>}) <= 1

\* list(row) + [""] * (5 - len(row))
RECURSIVE PadRow(_)
PadRow(row) == IF Len(row) < PadWidth THEN PadRow(Append(row, <<>>)) ELSE row

OGRENCI == <<"O_uml", "G_brv", "R", "E", "N", "C", "I_dot">>
PERSONEL == <<"P", "E", "R", "S", "O", "N", "E", "L">>
ASCIBASI == <<"A", "S", "C_ced", "I", "B", "A", "S_ced", "I">>
NOT_COLON == <<"N", "O", "T", ":">>

\* The "continue" tests of lines 161-169.
NotADish(d) ==
    LET up == upper(d)
    IN  \/ d = <<>>
        \/ startswith(up, OGRENCI) \/ startswith(up, PERSONEL)
        \/ startswith(up, ASCIBASI) \/ startswith(up, NOT_COLON)

\* if dish not in days[day_en]: days[day_en].append(dish)
AppendDish(list, d) == IF d \in Range(list) THEN list ELSE Append(list, d)

\* for dish in _cell_to_items(c): ... (lines 159-171) on one day's list
RECURSIVE AddItems(_, _)
AddItems(list, its) ==
    IF its = <<>> THEN list
    ELSE LET d == _norm(Head(its))
         IN  AddItems(IF NotADish(d) THEN list ELSE AppendDish(list, d),
                      Tail(its))

\* A bug that drops the test j >= len(row_cells).
ColumnUsable_no_length_test(col, day_en, row_cells) == day_en \in DOMAIN col

\* not (j is None or j >= len(row_cells))
ColumnUsable(col, day_en, row_cells) ==
    day_en \in DOMAIN col /\ ~(col[day_en] >= Len(row_cells))

\* The body of "for day_en in DAYS_EN" for the days from the k-th on.  st is
\* the day lists and whether an IndexError left the function.
RECURSIVE ReadDays(_, _, _, _)
ReadDays(st, col, row_cells, k) ==
    IF k >= NumDays \/ st.raised THEN st
    ELSE LET day_en == At(DAYS_EN, k)
         IN  IF ~ColumnUsable(col, day_en, row_cells)
             THEN ReadDays(st, col, row_cells, k + 1)
             ELSE IF col[day_en] + 1 \notin DOMAIN row_cells
             THEN [st EXCEPT !.raised = TRUE]
             ELSE ReadDays(
                      [st EXCEPT !.days[day_en] =
                          AddItems(@, _cell_to_items(At(row_cells, col[day_en])))],
                      col, row_cells, k + 1)

\* for row in best_table[header_row_idx + 1:], from row i on
RECURSIVE ReadRowsFrom(_, _, _, _)
ReadRowsFrom(st, table, col, i) ==
    IF i >= Len(table) \/ st.raised THEN st
    ELSE ReadRowsFrom(
             IF SkipRow(At(table, i)) THEN st
             ELSE ReadDays(st, col, PadRow(At(table, i)), 0),
             table, col, i + 1)

\* A bug that compares the entry as it is written with the labels.
IsDayToken_as_written(x) == x \in DayKeys

\* _norm(x).upper() in DAY_MAP
IsDayToken(x) == upper(_norm(x)) \in DayKeys

\* days[d] = [x for x in days[d] if _norm(x).upper() not in DAY_MAP]
WithoutDayTokens(ds) ==
    LET Keep(x) == ~IsDayToken(x)
    IN  [d \in DOMAIN ds |-> SelectSeq(ds[d], Keep)]

EmptyDays == [d \in Range(DAYS_EN) |-> <<>>]

---------------------------------------------------------------------------
(* find_latest_pdf.py: pick_best.  A link is its text's name and what the   *)
(* date pattern of line 13 finds in it: no match, or the six digit groups   *)
(* d1, m1, y1, d2, m2, y2.                                                  *)

NoMatch == <<>>

DigitValue ==
    [c \in {"0", "1", "2", "3", "4", "5", "6", "7", "8", "9"} |->
        CASE c = "0" -> 0 [] c = "1" -> 1 [] c = "2" -> 2 [] c = "3" -> 3
          [] c = "4" -> 4 [] c = "5" -> 5 [] c = "6" -> 6 [] c = "7" -> 7
          [] c = "8" -> 8 [] c = "9" -> 9]

\* int(s) for a string of decimal digits
RECURSIVE int(_)
int(s) ==
    IF s = <<>> THEN 0
    ELSE 10 * int(SubSeq(s, 1, Len(s) - 1)) + DigitValue[s[Len(s)]]

TwoDigitLimit == 100
Century == 2000

\* A bug that leaves a 2-digit end year as written.
score_raw_end_year(u) ==
    IF u.groups = NoMatch THEN <<0, 0, 0, 0, 0, 0>>
    ELSE LET d1 == u.groups[1]
             m1 == u.groups[2]
             y1 == u.groups[3]
             d2 == u.groups[4]
             m2 == u.groups[5]
             y2 == int(u.groups[6])
         IN  <<y2, int(m2), int(d2),
               IF int(y1) > TwoDigitLimit THEN int(y1) ELSE Century + int(y1),
               int(m1), int(d1)>>

score(u) ==
    IF u.groups = NoMatch THEN <<0, 0, 0, 0, 0, 0>>
    ELSE LET d1 == u.groups[1]
             m1 == u.groups[2]
             y1 == u.groups[3]
             d2 == u.groups[4]
             m2 == u.groups[5]
             y2 == IF int(u.groups[6]) < TwoDigitLimit
                   THEN int(u.groups[6]) + Century
                   ELSE int(u.groups[6])
         IN  <<y2, int(m2), int(d2),
               IF int(y1) > TwoDigitLimit THEN int(y1) ELSE Century + int(y1),
               int(m1), int(d1)>>

\* Python's tuple order: a < b
RECURSIVE TupleLess(_, _)
TupleLess(a, b) ==
    IF a = <<>> THEN b # <<>>
    ELSE IF b = <<>> THEN FALSE
    ELSE IF Head(a) # Head(b) THEN Head(a) < Head(b)
    ELSE TupleLess(Tail(a), Tail(b))

\* sorted(xs, key=score): stable, an element goes after those not greater.
RECURSIVE sorted(_)
sorted(xs) ==
    IF xs = <<>> THEN <<>>
    ELSE LET init == sorted(SubSeq(xs, 1, Len(xs) - 1))
             x == xs[Len(xs)]
             n == Cardinality({k \in 1..Len(init) :
                                  ~TupleLess(score(x), score(init[k]))})
         IN  SubSeq(init, 1, n) \o <<x>> \o SubSeq(init, n + 1, Len(init))

\* sorted(set(urls), key=score)[-1], the set iterated in the order ord.
pick_best(ord) == sorted(ord)[Len(ord)]

---------------------------------------------------------------------------
(* Specification of _cell_to_items: every cell of bounded length over the  *)
(* glyphs that decide its branches, and some cells with the other          *)
(* whitespace glyphs.  The Assembler passes each item through _norm        *)
(* (parse_menu.py line 160), which is dish.                                *)

MaxCellLen == 6

CellGlyphs == {"a", SP, NL, BULLET, SLASH}

SeqsUpTo(S, n) == UNION {[1..k -> S] : k \in 0..n}

ExtraCells ==
    { None,
      <<"a", NBSP, NBSP, "b", CR, NL, CR, NL, TAB, "c">>,
      <<TAB, "a", TAB, SP, BULLET, "b", CR, "c", NBSP>>,
      <<"a", NL, NL, NL, NL, "b">>,
      <<"a", SP, SLASH, NL, SP, "b", SP, NL, "c">>,
      <<BULLET, NBSP, "a", CR, BULLET, TAB, "b">> }

CellsUpTo(n) == SeqsUpTo(CellGlyphs, n) \cup ExtraCells

IdleCell == cell = <<>> /\ items = <<>> /\ dish = <<>>
IdleScore == tableA = <<>> /\ tableB = <<>> /\ scoreA = 0 /\ scoreB = 0
IdlePick == urls = <<>> /\ order = <<>> /\ best = <<>>
IdleMenu ==
    /\ page = <<>> /\ vi = 0 /\ best_table = <<>> /\ best_score = 0
    /\ header_row_idx = 0 /\ col_idx_for_day = <<>> /\ days = <<>>
    /\ fallback_called = FALSE /\ raised = FALSE

\* dish = _norm(dish) for each dish of the list
RECURSIVE NormEach(_)
NormEach(its) ==
    IF its = <<>> THEN <<>> ELSE <<_norm(Head(its))>> \o NormEach(Tail(its))

InitCell ==
    /\ pc = "cell_to_items"
    /\ cell \in CellsUpTo(MaxCellLen)
    /\ items = <<>>
    /\ dish = <<>>
    /\ IdleScore /\ IdlePick /\ IdleMenu

CellToItems ==
    /\ pc = "cell_to_items"
    /\ items' = _cell_to_items(cell)
    /\ dish' = NormEach(_cell_to_items(cell))
    /\ pc' = "cell_done"
    /\ UNCHANGED <<cell, scoreVars, pickVars, menuVars>>

NextCell == CellToItems

SpecCell == InitCell /\ [][NextCell]_vars

\* The cell's non-blank lines: after whitespace normalisation and with every
\* bullet glyph replaced by a space, the stripped lines that are not empty.
NonBlankLines(c) == Lines(strip(replace(_norm(c), BULLET, SP)))

---------------------------------------------------------------------------
(* Specification of _score_table: two tables are scored, as the selection  *)
(* loop compares the scores of two candidates.  A table is a short head    *)
(* followed by a number of two-cell dish rows.                             *)

MaxFill == 31

Soup == <<"S", "o", "u", "p">>
soup_sp == <<"s", "o", "u", "p", SP>>
Rice == <<"R", "i", "c", "e">>
Pasta == <<"P", "a", "s", "t", "a">>
Fish == <<"F", "i", "s", "h">>
sali == <<"s", "a", "l", "i">>
cuma_sp == <<SP, "c", "u", "m", "a", NBSP>>
persembe == <<"p", "e", "r", "s", "e", "m", "b", "e">>

HeaderRow == <<PAZARTESI_dot, SALI, CARSAMBA_ced, PERSEMBE_ced, CUMA>>
TwoSpellingsRow == <<PAZARTESI_dot, PAZARTESI, SALI>>
LowerLabelsRow == <<sali, Soup, cuma_sp, persembe, None>>
DishRow == <<Soup, Rice, Soup, Pasta, Fish>>
ShortRow == <<Soup, Rice>>

RECURSIVE Fill(_)
Fill(n) == IF n = 0 THEN <<>> ELSE Append(Fill(n - 1), ShortRow)

ScoreHeads ==
    { <<>>,
      <<HeaderRow>>,
      <<TwoSpellingsRow>>,
      <<LowerLabelsRow>>,
      <<DishRow>>,
      <<ShortRow>>,
      <<TwoSpellingsRow, DishRow>>,
      Fill(ScoreRows) \o <<HeaderRow>> }

ScoreTables(m) == {h \o Fill(n) : h \in ScoreHeads, n \in 0..m}

InitScore ==
    /\ pc = "score_table"
    /\ tableA \in ScoreTables(MaxFill)
    /\ tableB \in ScoreTables(MaxFill)
    /\ scoreA = 0
    /\ scoreB = 0
    /\ IdleCell /\ IdlePick /\ IdleMenu

ScoreTable ==
    /\ pc = "score_table"
    /\ scoreA' = _score_table(tableA)
    /\ scoreB' = _score_table(tableB)
    /\ pc' = "score_done"
    /\ UNCHANGED <<tableA, tableB, cellVars, pickVars, menuVars>>

NextScore == ScoreTable

SpecScore == InitScore /\ [][NextScore]_vars

\* Every row has fewer than 5 cells and no row of the first 6 holds a label.
NarrowNoHits(t) ==
    /\ \A k \in 1..Len(t) : Len(t[k]) < 5
    /\ DayHits(FirstRows(t, 6)) = 0

\* Some row has 5 or more cells and the first 6 rows hold 3 or more label hits.
WideThreeHits(t) ==
    /\ \E k \in 1..Len(t) : Len(t[k]) >= 5
    /\ DayHits(FirstRows(t, 6)) >= 3

\* C2 as stated: a narrow table A without label hits scores min(rows, 30), and
\* less than any table B of width >= 5 with >= 3 hits, whatever the row counts.
\* (Stated here for a non-empty A, which every reading of the claim covers.)
C2_AsStated ==
    (pc = "score_done" /\ tableA # <<>> /\ NarrowNoHits(tableA)) =>
        /\ scoreA = Min(Len(tableA), 30)
        /\ WideThreeHits(tableB) => scoreA < scoreB

\* C2 amended: a non-empty narrow table A without label hits scores
\* min(rows, 30) and an empty one -10; a table B of width >= 5 with >= 3 hits
\* scores at least 25 + min(rows of B, 30); so A scores less than B whenever A
\* has at most 25 rows or no more rows than B.
C2_RowTermOnlyAndBelowWhenNotLonger ==
    pc = "score_done" =>
        /\ (NarrowNoHits(tableA) /\ tableA # <<>>) =>
               scoreA = Min(Len(tableA), 30)
        /\ tableA = <<>> => scoreA = -10
        /\ WideThreeHits(tableB) => scoreB >= 25 + Min(Len(tableB), 30)
        /\ ( /\ NarrowNoHits(tableA)
             /\ WideThreeHits(tableB)
             /\ (Len(tableA) <= 25 \/ Len(tableA) <= Len(tableB)) ) =>
               scoreA < scoreB

\* A narrow table of more than 30 rows was scored 30, below a wide table with
\* label hits that is longer still.
C2_Witness ==
    /\ pc = "score_done"
    /\ NarrowNoHits(tableA) /\ Len(tableA) > 30 /\ scoreA = 30
    /\ WideThreeHits(tableB) /\ Len(tableB) > Len(tableA)
    /\ scoreA < scoreB


---------------------------------------------------------------------------
(* Specification of pick_best: a non-empty list of links (main calls it    *)
(* only with one), and any iteration order of set(urls).                   *)

MaxUrls == 3

Link(name, d1, m1, y1, d2, m2, y2) ==
    [name |-> name, groups |-> <<d1, m1, y1, d2, m2, y2>>]

y24 == <<"2", "4">>
y2024 == <<"2", "0", "2", "4">>

Links ==
    { Link("a", <<"1">>, <<"1">>, y24, <<"5">>, <<"1">>, y24),
      Link("b", <<"8">>, <<"1">>, y24, <<"1", "2">>, <<"1">>, y24),
      Link("c", <<"8">>, <<"1">>, y2024, <<"1", "2">>, <<"1">>, y2024),
      Link("d", <<"0", "8">>, <<"0", "1">>, y24, <<"1", "2">>, <<"1">>, y2024),
      Link("e", <<"2", "9">>, <<"1", "2">>, <<"2", "3">>, <<"2">>, <<"1">>, y24),
      Link("f", <<"8">>, <<"1">>, <<"1", "0", "0">>,
                <<"1", "2">>, <<"1">>, <<"1", "0", "0">>),
      [name |-> "g", groups |-> NoMatch] }

Orders(S) == {f \in [1..Cardinality(S) -> S] : Range(f) = S}

InitPick ==
    /\ pc = "pick_best"
    /\ urls \in SeqsUpTo(Links, MaxUrls) \ {<<>>}
    /\ order \in Orders(Range(urls))
    /\ best = <<>>
    /\ IdleCell /\ IdleScore /\ IdleMenu

PickBest ==
    /\ pc = "pick_best"
    /\ best' = pick_best(order)
    /\ pc' = "pick_done"
    /\ UNCHANGED <<urls, order, cellVars, scoreVars, menuVars>>

NextPick == PickBest

SpecPick == InitPick /\ [][NextPick]_vars

\* A year as the claim reads it: 2 digits mean 2000 + yy.
ClaimYear(y) == IF Len(y) = 2 THEN 2000 + int(y) ELSE int(y)

\* (end-year, end-month, end-day, start-year, start-month, start-day)
ClaimKey(u) ==
    <<ClaimYear(u.groups[6]), int(u.groups[5]), int(u.groups[4]),
      ClaimYear(u.groups[3]), int(u.groups[2]), int(u.groups[1])>>

TwoOrFourDigitYears(u) ==
    /\ u.groups # NoMatch
    /\ Len(u.groups[3]) \in {2, 4}
    /\ Len(u.groups[6]) \in {2, 4}

\* C7: pick_best returns a link of the collection whose key is not below any
\* link's key; the key of a link with 2- or 4-digit years is (end-year,
\* end-month, end-day, start-year, start-month, start-day) with a 2-digit year
\* read as 2000 + yy, so "24" and "2024" give one key; of "1_1_24-5_1_24" and
\* "8_1_24-12_1_24" the latter is returned.
C7_LatestEndDate ==
    pc = "pick_done" =>
        /\ best \in Range(urls)
        /\ \A u \in Range(urls) : ~TupleLess(score(best), score(u))
        /\ \A u \in Range(urls) :
               TwoOrFourDigitYears(u) => score(u) = ClaimKey(u)
        /\ \A u, v \in Range(urls) :
               ( /\ TwoOrFourDigitYears(u) /\ TwoOrFourDigitYears(v)
                 /\ ClaimKey(u) = ClaimKey(v) ) => score(u) = score(v)
        /\ {u.name : u \in Range(urls)} = {"a", "b"} => best.name = "b"

\* Links written "24" and "2024" for the same dates, and an older one, were
\* compared, and one of the two latest was returned.
C7_Witness ==
    /\ pc = "pick_done"
    /\ {u.name : u \in Range(urls)} = {"a", "b", "c"}
    /\ best.name \in {"b", "c"}


---------------------------------------------------------------------------
(* Specification of extract_menu_from_pdf.  The page is what pdfplumber    *)
(* gives: whether the pdf has a page, per table setting either an          *)
(* exception or a list of tables, and what extract_table() gives.          *)

MaxDataRows == 3
MaxCandidates == 2

MessyCell == <<BULLET, SP, "R", "i", "c", "e", SP, BULLET, "x", NL, NL, "S", "o">>
PersonelCell == <<"p", "e", "r", "s", "o", "n", "e", "l", SP, "1">>

ShiftedHeaderRow ==
    <<<<>>, CUMA, PERSEMBE, CARSAMBA, SALI, PAZARTESI, PAZARTESI_dot>>
FourLabelsRow == <<SALI, PAZARTESI, Soup, persembe, cuma_sp>>
MessyRow == <<Soup, sali, CUMA, None, MessyCell, PersonelCell, Fish>>
ShortSoupRow == <<soup_sp, Rice>>
OneCellRow == <<<<>>, Soup, <<SP>>>>
EmptyRow == <<>>

HeadRows ==
    {HeaderRow, ShiftedHeaderRow, FourLabelsRow, TwoSpellingsRow, EmptyRow,
     DishRow}

DataRows == {DishRow, ShortSoupRow, MessyRow, OneCellRow}

\* Rows before the head row that make it the last row scanned for a header,
\* or the first row past those.
LeadCounts == {HeaderScanRows - 1, HeaderScanRows}

\* A head row and up to n data rows; or rows before a head row, and one data
\* row or none.
MenuTables(n) ==
    {<<h>> \o d : h \in HeadRows, d \in SeqsUpTo(DataRows, n)}
    \cup
    {Fill(k) \o <<h>> \o d :
        k \in LeadCounts, h \in HeadRows,
        d \in {<<>>} \cup {<<r>> : r \in DataRows \cup {EmptyRow}}}

Raises == [raises |-> TRUE, tables |-> <<>>]
Gives(ts) == [raises |-> FALSE, tables |-> ts]

NoFallback == [raises |-> FALSE, table |-> NoTable]

\* One table found by the first setting, the others finding none or failing.
TablePages(n) ==
    {[pages |-> TRUE, settings |-> <<Gives(<<t>>), r, Gives(<<>>)>>,
      fallback |-> NoFallback] : t \in MenuTables(n), r \in {Raises}}
    \cup
    {[pages |-> TRUE, settings |-> <<Gives(<<>>), Gives(<<>>), Gives(<<>>)>>,
      fallback |-> [raises |-> FALSE, table |-> <<HeaderRow, DishRow>>]],
     [pages |-> FALSE, settings |-> <<Gives(<<>>), Gives(<<>>), Gives(<<>>)>>,
      fallback |-> NoFallback]}

OtherDishRow == <<Fish, Pasta, Rice, Soup, Fish>>

\* Candidates: two of equal score and different dishes, a lower one, an empty.
SelectTables ==
    {<<HeaderRow, DishRow>>, <<HeaderRow, OtherDishRow>>, <<ShortRow>>, <<>>}

\* What one setting gives with k tables: a list of k, or for none a failure.
SettingResults(k) ==
    {Gives(l) : l \in [1..k -> SelectTables]}
        \cup (IF k = 0 THEN {Raises} ELSE {})

\* The results of the three settings with at most n candidate tables in all.
SettingsUpTo(n) ==
    UNION {
      {<<a, b, c>> : a \in SettingResults(ns[1]), b \in SettingResults(ns[2]),
                     c \in SettingResults(ns[3])} :
      ns \in {x \in (0..n) \X (0..n) \X (0..n) : x[1] + x[2] + x[3] <= n}}

\* Some setting gives a table that the loop can select.
AnySelectable(s) ==
    \E k \in 1..Len(s) : \E t \in Range(TablesOf(s[k])) : t # <<>>

\* extract_table() gives a table; where the settings give nothing to select,
\* it also gives None or fails.
SelectPages(n) ==
    {[pages |-> TRUE, settings |-> s,
      fallback |-> [raises |-> FALSE, table |-> <<ShortRow>>]] :
        s \in SettingsUpTo(n)}
    \cup
    {[pages |-> TRUE, settings |-> s, fallback |-> f] :
        s \in {x \in SettingsUpTo(n) : ~AnySelectable(x)},
        f \in {NoFallback, [raises |-> TRUE, table |-> NoTable]}}

InitMenu(pages) ==
    /\ pc = "open"
    /\ page \in pages
    /\ vi = 0
    /\ best_table = NoTable
    /\ best_score = InitialBestScore
    /\ header_row_idx = 0
    /\ col_idx_for_day = <<>>
    /\ fallback_called = FALSE
    /\ days = EmptyDays
    /\ raised = FALSE
    /\ IdleCell /\ IdleScore /\ IdlePick

\* Lines 81-85: return at once when the pdf has no page.
Open ==
    /\ pc = "open"
    /\ pc' = IF page.pages THEN "settings" ELSE "done"
    /\ UNCHANGED <<page, vi, best_table, best_score, header_row_idx,
                   col_idx_for_day, fallback_called, days, raised,
                   cellVars, scoreVars, pickVars>>

\* Lines 102-111: one pass of "for settings in settings_variants".
TrySettings ==
    /\ pc = "settings"
    /\ LET sel == ScanTables([score |-> best_score, table |-> best_table],
                             TablesOf(At(page.settings, vi)))
       IN  /\ best_score' = sel.score
           /\ best_table' = sel.table
    /\ vi' = vi + 1
    /\ pc' = IF vi + 1 < NumSettings THEN "settings" ELSE "fallback"
    /\ UNCHANGED <<page, header_row_idx, col_idx_for_day, fallback_called,
                   days, raised, cellVars, scoreVars, pickVars>>

\* Lines 113-122: extract_table() when nothing was selected; return when
\* there is still no table.
Fallback ==
    /\ pc = "fallback"
    /\ fallback_called' = (best_table = NoTable)
    /\ best_table' =
           IF best_table # NoTable THEN best_table
           ELSE IF page.fallback.raises THEN NoTable
           ELSE page.fallback.table
    /\ pc' = IF best_table' = NoTable THEN "done" ELSE "header"
    /\ UNCHANGED <<page, vi, best_score, header_row_idx, col_idx_for_day,
                   days, raised, cellVars, scoreVars, pickVars>>

\* Lines 124-145: the header row and the weekday -> column dict.
ResolveHeader ==
    /\ pc = "header"
    /\ header_row_idx' = FindHeaderRow(best_table)
    /\ col_idx_for_day' = ResolveColumns(At(best_table, FindHeaderRow(best_table)))
    /\ pc' = "rows"
    /\ UNCHANGED <<page, vi, best_table, best_score, fallback_called, days,
                   raised, cellVars, scoreVars, pickVars>>

\* Lines 147-171: the rows after the header row.
ReadRows ==
    /\ pc = "rows"
    /\ LET st == ReadRowsFrom([days |-> days, raised |-> FALSE], best_table,
                              col_idx_for_day, header_row_idx + 1)
       IN  /\ days' = st.days
           /\ raised' = st.raised
           /\ pc' = IF st.raised THEN "done" ELSE "filter"
    /\ UNCHANGED <<page, vi, best_table, best_score, header_row_idx,
                   col_idx_for_day, fallback_called, cellVars, scoreVars,
                   pickVars>>

\* Lines 173-177: the last pass over the day lists, and the return.
RemoveDayTokens ==
    /\ pc = "filter"
    /\ days' = WithoutDayTokens(days)
    /\ pc' = "done"
    /\ UNCHANGED <<page, vi, best_table, best_score, header_row_idx,
                   col_idx_for_day, fallback_called, raised, cellVars,
                   scoreVars, pickVars>>

Next ==
    \/ Open
    \/ TrySettings
    \/ Fallback
    \/ ResolveHeader
    \/ ReadRows
    \/ RemoveDayTokens

Init == InitMenu(TablePages(MaxDataRows))

Spec == Init /\ [][Next]_vars

InitSelect == InitMenu(SelectPages(MaxCandidates))

SpecSelect == InitSelect /\ [][Next]_vars


---------------------------------------------------------------------------
(* The words of the claims about extract_menu_from_pdf *)

FiveDays == {"Monday", "Tuesday", "Wednesday", "Thursday", "Friday"}

\* A table was selected and its header resolved.
Resolved == pc \in {"rows", "filter", "done"} /\ best_table # NoTable

\* The function returned after reading a selected table.
Returned == pc = "done" /\ best_table # NoTable

\* The rows after the header row that are not skipped as spacer rows.
ReadRowIdx ==
    {i \in (header_row_idx + 1)..(Len(best_table) - 1) :
        ~SkipRow(At(best_table, i))}

\* Whether weekday d has a cell in row i, the row padded to 5 cells.
HasCell(i, d) ==
    /\ d \in DOMAIN col_idx_for_day
    /\ col_idx_for_day[d] < Len(PadRow(At(best_table, i)))

\* The cell of weekday d in row i.
CellOf(i, d) == At(PadRow(At(best_table, i)), col_idx_for_day[d])

\* The dish names row i offers to weekday d: its cell's items, normalised,
\* without the empty ones and the institutional labels and footnotes.
Offered(i, d) ==
    IF i \in ReadRowIdx /\ HasCell(i, d)
    THEN {x \in Range(NormEach(_cell_to_items(CellOf(i, d)))) : ~NotADish(x)}
    ELSE {}

\* The first row that offers x to weekday d (a row past the table if none).
FirstRow(d, x) ==
    LET rows == {i \in ReadRowIdx : x \in Offered(i, d)}
    IN  IF rows = {} THEN Len(best_table)
        ELSE CHOOSE i \in rows : \A h \in rows : i <= h

\* The raw cells of weekday d in the rows read, in row order.
RECURSIVE CellsFrom(_, _)
CellsFrom(d, i) ==
    IF i >= Len(best_table) THEN <<>>
    ELSE (IF i \in ReadRowIdx /\ HasCell(i, d) THEN <<CellOf(i, d)>> ELSE <<>>)
         \o CellsFrom(d, i + 1)

\* The day lists as they are before the last pass removes day tokens.
DaysBeforeLastPass ==
    ReadRowsFrom([days |-> EmptyDays, raised |-> FALSE], best_table,
                 col_idx_for_day, header_row_idx + 1).days

\* C1: no weekday's list holds two entries equal under case- and
\* whitespace-normalised comparison, entries are in first-seen row order, and
\* Monday cells "Soup", "soup ", "Soup" in successive rows yield ["Soup"].
\* Line 170 compares the normalised names exactly, so "Soup" and "soup" are
\* both kept and the returned list is ["Soup", "soup"].
C1_AsStated ==
    Returned =>
        /\ \A d \in FiveDays : \A i, j \in 1..Len(days[d]) :
               i < j => /\ upper(_norm(days[d][i])) # upper(_norm(days[d][j]))
                        /\ FirstRow(d, days[d][i]) < FirstRow(d, days[d][j])
        /\ CellsFrom("Monday", header_row_idx + 1) = <<Soup, soup_sp, Soup>>
               => days["Monday"] = <<Soup>>

\* The weekdays whose label is a cell of the header row.
LabelledDays ==
    {DayOf(c) : c \in DayKeys \cap Range(NormUpperRow(At(best_table, header_row_idx)))}

\* C4: header resolution is all-or-nothing: with fewer than 5 weekdays
\* labelled in the header row the mapping is Monday->0 ... Friday->4 and
\* nothing of the labels is kept; with all 5 labelled each weekday maps to the
\* (last) column of its label; the returned record has all five weekday keys.
C4_AllOrNothing ==
    /\ Resolved =>
          IF Cardinality(LabelledDays) < 5
          THEN col_idx_for_day =
                   [d \in FiveDays |->
                       CASE d = "Monday" -> 0 [] d = "Tuesday" -> 1
                         [] d = "Wednesday" -> 2 [] d = "Thursday" -> 3
                         [] d = "Friday" -> 4]
          ELSE /\ DOMAIN col_idx_for_day = FiveDays
               /\ \A d \in FiveDays :
                      LET hdr == NormUpperRow(At(best_table, header_row_idx))
                          j == col_idx_for_day[d]
                      IN  /\ j \in 0..(Len(hdr) - 1)
                          /\ At(hdr, j) \in DayKeys
                          /\ DayOf(At(hdr, j)) = d
                          /\ \A h \in (j + 1)..(Len(hdr) - 1) :
                                 ~(At(hdr, h) \in DayKeys /\ DayOf(At(hdr, h)) = d)
    /\ pc = "done" => DOMAIN days = FiveDays

\* A header row with 4 weekdays labelled, Tuesday's label in column 0, was
\* resolved positionally and the record returned with dishes in it.
C4_Witness ==
    /\ Returned
    /\ Cardinality(LabelledDays) = 4
    /\ upper(_norm(At(At(best_table, header_row_idx), 0))) = SALI
    /\ col_idx_for_day["Monday"] = 0
    /\ days["Monday"] # <<>>

\* C5: in every final state no weekday's list holds an entry that, whitespace
\* normalised, case-insensitively equals a key of DAY_MAP.
C5_NoDayTokenInLists ==
    pc = "done" =>
        \A d \in FiveDays : \A k \in 1..Len(days[d]) :
            upper(_norm(days[d][k])) \notin DayKeys

\* A weekday label in lower case had reached a list and the last pass removed
\* it before the function returned.
C5_Witness ==
    /\ Returned
    /\ \E d \in FiveDays : sali \in Range(DaysBeforeLastPass[d])
    /\ \A d \in FiveDays : sali \notin Range(days[d])

\* C8: for every table shape no exception leaves the function: a cell is
\* looked up only within the padded row, and every entry of a weekday's list
\* comes from a row in which the weekday's column exists.
C8_NoIndexError ==
    /\ raised = FALSE
    /\ Returned =>
          \A d \in FiveDays : \A k \in 1..Len(days[d]) :
              \E i \in ReadRowIdx : HasCell(i, d) /\ days[d][k] \in Offered(i, d)

\* A label-derived column lies beyond a row that was read, a row longer than
\* 5 cells was read too, and the function returned with dishes.
C8_Witness ==
    /\ Returned
    /\ raised = FALSE
    /\ \E i \in ReadRowIdx : \E d \in FiveDays : ~HasCell(i, d)
    /\ \E i \in ReadRowIdx : Len(At(best_table, i)) > 5
    /\ \E i \in ReadRowIdx : Len(At(best_table, i)) < 5
    /\ Len(At(best_table, header_row_idx)) > 5
    /\ \E d \in FiveDays : days[d] # <<>>

\* The rows among the first 10 that hold at least 3 weekdays' labels, two
\* spellings of one weekday counted once.
RowsWithThreeWeekdays ==
    {i \in 0..(Min(Len(best_table), 10) - 1) :
        Cardinality({DayOf(c) : c \in DayKeys \cap
                        Range(NormUpperRow(At(best_table, i)))}) >= 3}

\* The rows among the first 10 that hold at least 3 of the label strings of
\* DAY_MAP, two spellings of one weekday counted twice.
RowsWithThreeLabels ==
    {i \in 0..(Min(Len(best_table), 10) - 1) :
        Cardinality(DayKeys \cap Range(NormUpperRow(At(best_table, i)))) >= 3}

\* Every entry of every list comes from a row after the header row.
OnlyRowsAfterHeader ==
    \A d \in FiveDays : \A k \in 1..Len(days[d]) :
        \E i \in (header_row_idx + 1)..(Len(best_table) - 1) :
            days[d][k] \in Offered(i, d)

\* C10 as stated: the header row is the lowest of the first 10 rows with at
\* least 3 distinct weekdays labelled (two spellings of a weekday counting
\* once), row 0 if there is none; only later rows contribute dishes.
C10_AsStated ==
    Resolved =>
        /\ RowsWithThreeWeekdays # {} =>
               /\ header_row_idx \in RowsWithThreeWeekdays
               /\ \A i \in RowsWithThreeWeekdays : header_row_idx <= i
        /\ RowsWithThreeWeekdays = {} => header_row_idx = 0
        /\ pc = "done" => OnlyRowsAfterHeader

\* C10 amended: the header row is the lowest of the first 10 rows with at
\* least 3 of DAY_MAP's label strings among its cells (the accented and the
\* folded spelling of one weekday counting as two), row 0 if there is none;
\* only later rows contribute dishes.
C10_FirstRowWithThreeLabels ==
    Resolved =>
        /\ RowsWithThreeLabels # {} =>
               /\ header_row_idx \in RowsWithThreeLabels
               /\ \A i \in RowsWithThreeLabels : header_row_idx <= i
        /\ RowsWithThreeLabels = {} => header_row_idx = 0
        /\ pc = "done" => OnlyRowsAfterHeader

\* The tenth row was found to be the header, with 3 labels of 2 weekdays, and
\* the row after it gave dishes.
C10_Witness ==
    /\ Returned
    /\ header_row_idx = 9
    /\ RowsWithThreeLabels = {9}
    /\ RowsWithThreeWeekdays = {}
    /\ \E d \in FiveDays : days[d] # <<>>

---------------------------------------------------------------------------
(* The words of the claims about the selection of the table *)

\* The candidates in the order the loop sees them.
Candidates ==
    TablesOf(page.settings[1]) \o TablesOf(page.settings[2])
        \o TablesOf(page.settings[3])

\* The candidates of the first k settings.
RECURSIVE CandidatesOfFirst(_)
CandidatesOfFirst(k) ==
    IF k = 0 THEN <<>>
    ELSE CandidatesOfFirst(k - 1) \o TablesOf(page.settings[k])

\* The first of cs with the greatest score, if that is above -10.
FirstBest(cs) ==
    LET idx == {k \in 1..Len(cs) :
                   /\ _score_table(cs[k]) > -10
                   /\ \A h \in 1..Len(cs) :
                          _score_table(cs[h]) <= _score_table(cs[k])}
    IN  IF idx = {} THEN [score |-> -10, table |-> NoTable]
        ELSE LET k == CHOOSE i \in idx : \A h \in idx : i <= h
             IN  [score |-> _score_table(cs[k]), table |-> cs[k]]

\* What extract_table() leaves in best_table when nothing was selected.
FallbackTable == IF page.fallback.raises THEN NoTable ELSE page.fallback.table

\* C9: the table selected is the first-seen candidate of maximal score, over
\* the settings in their order and each one's list in its order; a failing
\* setting gives no candidate and the later ones are still tried; and
\* extract_table() is called only when no candidate was selected.
C9_FirstSeenMaximum ==
    /\ pc = "settings" =>
          [score |-> best_score, table |-> best_table]
              = FirstBest(CandidatesOfFirst(vi))
    /\ pc = "fallback" =>
          /\ vi = 3
          /\ [score |-> best_score, table |-> best_table] = FirstBest(Candidates)
    /\ pc \in {"header", "rows", "filter", "done"} =>
          /\ fallback_called = (FirstBest(Candidates).table = NoTable)
          /\ best_table = IF fallback_called THEN FallbackTable
                          ELSE FirstBest(Candidates).table

\* The first setting failed, the other two gave different tables of equal
\* score, and the earlier one is selected.
C9_Witness ==
    /\ pc = "fallback"
    /\ page.settings[1].raises
    /\ Len(page.settings[2].tables) = 1 /\ Len(page.settings[3].tables) = 1
    /\ page.settings[2].tables[1] # page.settings[3].tables[1]
    /\ _score_table(page.settings[2].tables[1])
           = _score_table(page.settings[3].tables[1])
    /\ best_table = page.settings[2].tables[1]

\* The orders in which the three settings can be evaluated.
SettingOrders == {p \in [1..3 -> 1..3] : \A a, b \in 1..3 : a # b => p[a] # p[b]}

\* Lines 99-111 with the settings evaluated in the order p.
SelectIn(p) ==
    ScanTables(
        ScanTables(
            ScanTables([score |-> InitialBestScore, table |-> NoTable],
                       TablesOf(page.settings[p[1]])),
            TablesOf(page.settings[p[2]])),
        TablesOf(page.settings[p[3]]))

\* Lines 113-177 on what the selection left: the table and the day lists.
OutcomeOf(sel) ==
    LET table == IF sel.table # NoTable THEN sel.table ELSE FallbackTable
        hdr == FindHeaderRow(table)
        col == ResolveColumns(At(table, hdr))
    IN  [table |-> table,
         days |-> IF table = NoTable THEN EmptyDays
                  ELSE WithoutDayTokens(
                           ReadRowsFrom([days |-> EmptyDays, raised |-> FALSE],
                                        table, col, hdr + 1).days)]

\* The candidates of greatest score, when that is above -10.
TopCandidates ==
    {c \in Range(Candidates) :
        /\ _score_table(c) > -10
        /\ \A o \in Range(Candidates) : _score_table(o) <= _score_table(c)}

\* C6 as stated: the selected table and the day record are the same for
\* every order in which the three settings are evaluated.
C6_AsStated ==
    pc = "done" =>
        \A p \in SettingOrders :
            OutcomeOf(SelectIn(p)) = [table |-> best_table, days |-> days]

\* C6 amended: the best score is the same for every order in which the three
\* settings are evaluated, and so are the selected table and the day record
\* unless different tables tie for the greatest score (then the one seen
\* first in the order used wins).
C6_SameUnlessDifferentTablesTie ==
    pc = "done" =>
        \A p \in SettingOrders :
            /\ SelectIn(p).score = best_score
            /\ Cardinality(TopCandidates) <= 1 =>
                   OutcomeOf(SelectIn(p)) = [table |-> best_table, days |-> days]

\* Two settings gave tables of different score, the better one first, and the
\* record of the better one was returned.
C6_Witness ==
    /\ pc = "done"
    /\ Len(Candidates) = 2
    /\ _score_table(Candidates[1]) > _score_table(Candidates[2])
    /\ _score_table(Candidates[2]) > -10
    /\ page.settings[1].tables # <<>> /\ page.settings[1].tables # Candidates
    /\ best_table = Candidates[1]
    /\ days["Monday"] # <<>>

=============================================================================
